---- MODULE Spec2Model ----
(***************************************************************************)
(* Model of the client-side search / filter / sort hooks of ruidmap        *)
(* (useTaskSearch and useProjectSearch) and of the state they hold.        *)
(*                                                                         *)
(* Strings are sequences of one-character strings, so that toLowerCase     *)
(* and includes are computed character by character.  Instants are whole   *)
(* numbers of ticks of local time, TicksPerDay ticks to a day; day 0 of    *)
(* the calendar window is Sunday 29 March 2026.                            *)
(***************************************************************************)
EXTENDS Integers, Sequences, FiniteSets, TLC

VARIABLES
    tasks,            \* the tasks prop of useTaskSearch (an array of Task)
    searchFilters,    \* useState<SearchFilterState> of useTaskSearch
    filteredItems,    \* the memoised filteredTasks
    resultCount,      \* filteredTasks.length as returned by the hook
    evalAt,           \* the instant new Date() returned when the memo last ran
    now,              \* the current instant of the host clock
    projects,         \* the projects prop of useProjectSearch
    projectFilters,   \* useState<SearchFilterState> of useProjectSearch
    filteredProjects, \* the memoised filteredProjects
    projectCount,     \* filteredProjects.length as returned by the hook
    tags,             \* the tags prop of TagManager (task.tags of the open task)
    allTags,          \* the allTags prop of TagManager
    newTag,           \* useState('') of TagManager: the text of the input
    showSuggestions,  \* useState(false) of TagManager
    onAddTagCalls,    \* the calls of onAddTag, each with the tags prop it saw
    isTracking,       \* useState(false) of TimeTracker
    startTime,        \* useState<Date | null>(null) of TimeTracker
    currentSession,   \* useState(0) of TimeTracker: minutes of the session
    manualTime,       \* useState('') of TimeTracker: the text of the input
    onAddTimeCalls,   \* the minutes of the calls of onAddTime
    wallClock,        \* the instant Date's constructor reads in TimeTracker
    mock,             \* the mock useTasks hook: its state and its calls in flight
    hook,             \* useTasks(projectId): its state and its calls in flight
    importer,         \* DataManagement: its state and where handleImport stands
    pm,               \* useProjectManagement: its state, its calls in flight, the store
    notifier          \* NotificationProvider: the notifications and the pending timers

vars == <<tasks, searchFilters, filteredItems, resultCount, evalAt, now,
          projects, projectFilters, filteredProjects, projectCount,
          tags, allTags, newTag, showSuggestions, onAddTagCalls,
          isTracking, startTime, currentSession, manualTime, onAddTimeCalls,
          wallClock, mock, hook, importer, pm, notifier>>

taskVars == <<tasks, searchFilters, filteredItems, resultCount, evalAt>>
projectVars == <<projects, projectFilters, filteredProjects, projectCount>>
tagVars == <<tags, allTags, newTag, showSuggestions, onAddTagCalls>>
trackerVars ==
    <<isTracking, startTime, currentSession, manualTime, onAddTimeCalls, wallClock>>
uiVars == <<now, taskVars, projectVars, tagVars, trackerVars>>
appVars == <<mock, hook, importer, pm, notifier>>
exceptMock == <<uiVars, hook, importer, pm, notifier>>
exceptHook == <<uiVars, mock, importer, pm, notifier>>
exceptImporter == <<uiVars, mock, hook, pm, notifier>>
exceptPm == <<uiVars, mock, hook, importer, notifier>>
exceptNotifier == <<uiVars, mock, hook, importer, pm>>

----------------------------------------------------------------------------
(* Bounds of the model *)

MaxTasks == 3        \* length of the tasks array where the order matters
MaxFilterTasks == 2  \* length of the tasks array where the filters vary
MaxProjects == 2     \* length of the projects array
MaxNow == 4          \* last instant the clock reaches
TicksPerDay == 2
MaxTagCalls == 2
MaxTimeCalls == 2
MaxWallClock == 5
TicksPerMinute == 2
MaxPending == 2
MaxMockAdds == 2
MaxInFlight == 2
MaxSwitches == 2
MaxHookTasks == 3
MaxImports == 2
MaxStored == 3
MaxPmCalls == 3
MaxPmSwitches == 1
maxNotifications == 2
MaxNotified == 3
InitialNextId == 7

\* The duration of a notification added without one, in milliseconds
DefaultDuration == 5000     \* instants told apart within a day

----------------------------------------------------------------------------
(* Strings *)

Str_all == <<"a", "l", "l">>
Str_empty == <<>>

ToLowerChar(c) ==
    CASE c = "A" -> "a"
      [] c = "B" -> "b"
      [] c = "L" -> "l"
      [] OTHER -> c

\* String.prototype.toLowerCase
ToLowerCase(s) == [i \in 1..Len(s) |-> ToLowerChar(s[i])]

\* String.prototype.includes
Includes(s, t) ==
    \E i \in 0..(Len(s) - Len(t)) : SubSeq(s, i + 1, i + Len(t)) = t

\* Array.prototype.includes / some over an array
ArrayIncludes(arr, x) == \E i \in 1..Len(arr) : arr[i] = x

\* Collation weights of String.prototype.localeCompare in the default (root)
\* locale: letters first compared ignoring case, lower case before upper case
\* among strings that differ in case only.
Primary(c) ==
    CASE ToLowerChar(c) = "a" -> 1
      [] ToLowerChar(c) = "b" -> 2
      [] OTHER -> 3

Tertiary(c) == IF ToLowerChar(c) = c THEN 0 ELSE 1

RECURSIVE LexCompare(_, _)
LexCompare(u, v) ==
    IF u = <<>> /\ v = <<>> THEN 0
    ELSE IF u = <<>> THEN -1
    ELSE IF v = <<>> THEN 1
    ELSE IF Head(u) < Head(v) THEN -1
    ELSE IF Head(u) > Head(v) THEN 1
    ELSE LexCompare(Tail(u), Tail(v))

LocaleCompare(s, t) ==
    LET p == LexCompare([i \in 1..Len(s) |-> Primary(s[i])],
                        [i \in 1..Len(t) |-> Primary(t[i])])
    IN  IF p # 0 THEN p
        ELSE LexCompare([i \in 1..Len(s) |-> Tertiary(s[i])],
                        [i \in 1..Len(t) |-> Tertiary(t[i])])

----------------------------------------------------------------------------
(* Calendar: local dates of the instants *)

DayOf(t) == t \div TicksPerDay
At(d, tick) == d * TicksPerDay + tick
Midnight(d) == d * TicksPerDay

\* Date.prototype.getDay: 0 is Sunday; day 0 of the window is a Sunday
GetDay(d) == d % 7

\* Days 0..2 are 29..31 March 2026, days 3..32 are 1..30 April 2026
MonthStartDay(d) == IF d < 3 THEN 0 - 28 ELSE 3
MonthLastDay(d) == IF d < 3 THEN 2 ELSE 32


----------------------------------------------------------------------------
(* Domains of the Task, Project and SearchFilterState fields *)

Statuses == {"todo", "in-progress", "done"}
Priorities == {"low", "medium", "high"}
DueDateFilters == {"all", "overdue", "today", "this-week", "this-month"}
SortKeys == {"created", "updated", "title", "priority", "due-date"}
SortOrders == {"asc", "desc"}

\* Initial state of useState<SearchFilterState>, also what clearFilters sets
DefaultFilters ==
    [searchTerm |-> Str_empty, statusFilter |-> "all", priorityFilter |-> "all",
     tagFilter |-> Str_all, dueDateFilter |-> "all",
     sortBy |-> "created", sortOrder |-> "desc"]

----------------------------------------------------------------------------
(* The filtering stage of useTaskSearch *)

\* Text search predicate; term is the lower-cased search term
MatchesSearch(task, term) ==
    \/ Includes(ToLowerCase(task.title), term)
    \/ Includes(ToLowerCase(task.description), term)
    \/ \E i \in 1..Len(task.tags) : Includes(ToLowerCase(task.tags[i]), term)

MatchesStatus(task, f) == task.status = f.statusFilter
MatchesPriority(task, f) == task.priority = f.priorityFilter
MatchesTag(task, f) == ArrayIncludes(task.tags, f.tagFilter)

\* Mutant: today keeps the time of day of now
TodayIsNow(n) == n

\* Mutant: today is the midnight that ends the current day
TodayEndOfDay(n) == Midnight(DayOf(n) + 1)

\* The dates the due-date filter derives from now = new Date()
Today(n) == Midnight(DayOf(n))
ThisWeekStart(n) == Midnight(DayOf(n) - GetDay(DayOf(n)))
ThisWeekEnd(n) == Midnight(DayOf(n) - GetDay(DayOf(n)) + 6)
ThisMonthStart(n) == Midnight(MonthStartDay(DayOf(n)))
ThisMonthEnd(n) == Midnight(MonthLastDay(DayOf(n)))

\* Mutant: a task without a due date passes the due-date filter
InDueBucketUndatedKept(task, f, n) ==
    IF task.due_date = <<>> THEN TRUE
    ELSE LET dueDate == task.due_date[1] IN
         CASE f.dueDateFilter = "overdue" -> dueDate < Today(n)
           [] f.dueDateFilter = "today" -> DayOf(dueDate) = DayOf(Today(n))
           [] f.dueDateFilter = "this-week" ->
                  dueDate >= ThisWeekStart(n) /\ dueDate <= ThisWeekEnd(n)
           [] f.dueDateFilter = "this-month" ->
                  dueDate >= ThisMonthStart(n) /\ dueDate <= ThisMonthEnd(n)
           [] OTHER -> TRUE

\* The callback of the due-date filter
InDueBucket(task, f, n) ==
    IF task.due_date = <<>> THEN FALSE
    ELSE LET dueDate == task.due_date[1] IN
         CASE f.dueDateFilter = "overdue" -> dueDate < Today(n)
           [] f.dueDateFilter = "today" -> DayOf(dueDate) = DayOf(Today(n))
           [] f.dueDateFilter = "this-week" ->
                  dueDate >= ThisWeekStart(n) /\ dueDate <= ThisWeekEnd(n)
           [] f.dueDateFilter = "this-month" ->
                  dueDate >= ThisMonthStart(n) /\ dueDate <= ThisMonthEnd(n)
           [] OTHER -> TRUE

\* Which of the five filters run (the conditions of the if statements)
SearchActive(f) == f.searchTerm # Str_empty
StatusActive(f) == f.statusFilter # "all"
PriorityActive(f) == f.priorityFilter # "all"
TagActive(f) == f.tagFilter # Str_all
DueDateActive(f) == f.dueDateFilter # "all"

\* Mutant: filtered refers to the input array itself
NoCopy(arr) == [input |-> arr, filtered |-> arr, same |-> TRUE]

\* The working array of the memo: filtered is what the variable refers to,
\* input is the content of the array passed in, same tells whether the two
\* are one array object (so that an in-place sort would reorder the input).
SpreadCopy(arr) == [input |-> arr, filtered |-> arr, same |-> FALSE]

\* Array.prototype.filter returns a new array, which filtered then refers to
FilterResult(w, kept) == [input |-> w.input, filtered |-> kept, same |-> FALSE]

\* Mutant: the search term is not lower-cased
FilterBySearchRawTerm(w, f) ==
    IF SearchActive(f)
    THEN FilterResult(w, SelectSeq(w.filtered, LAMBDA t : MatchesSearch(t, f.searchTerm)))
    ELSE w

FilterBySearch(w, f) ==
    IF SearchActive(f)
    THEN FilterResult(w, SelectSeq(w.filtered,
             LAMBDA t : MatchesSearch(t, ToLowerCase(f.searchTerm))))
    ELSE w

FilterByStatus(w, f) ==
    IF StatusActive(f)
    THEN FilterResult(w, SelectSeq(w.filtered, LAMBDA t : MatchesStatus(t, f)))
    ELSE w

FilterByPriority(w, f) ==
    IF PriorityActive(f)
    THEN FilterResult(w, SelectSeq(w.filtered, LAMBDA t : MatchesPriority(t, f)))
    ELSE w

\* Mutant: the tag filter restarts from the input array
FilterByTagFromInput(w, f) ==
    IF TagActive(f)
    THEN FilterResult(w, SelectSeq(w.input, LAMBDA t : MatchesTag(t, f)))
    ELSE w

FilterByTag(w, f) ==
    IF TagActive(f)
    THEN FilterResult(w, SelectSeq(w.filtered, LAMBDA t : MatchesTag(t, f)))
    ELSE w

FilterByDueDate(w, f, n) ==
    IF DueDateActive(f)
    THEN FilterResult(w, SelectSeq(w.filtered, LAMBDA t : InDueBucket(t, f, n)))
    ELSE w

----------------------------------------------------------------------------
(* The sorting stage of useTaskSearch *)

PriorityOrder(p) ==
    CASE p = "high" -> 3
      [] p = "medium" -> 2
      [] p = "low" -> 1
      [] OTHER -> 0

DueDateComparison(a, b) ==
    IF a.due_date = <<>> /\ b.due_date = <<>> THEN 0
    ELSE IF a.due_date = <<>> THEN 1
    ELSE IF b.due_date = <<>> THEN -1
    ELSE a.due_date[1] - b.due_date[1]

\* Mutant: priorities compared as strings (high < low < medium)
LexicalPriority(p) ==
    CASE p = "high" -> 1
      [] p = "low" -> 2
      [] p = "medium" -> 3
      [] OTHER -> 0

ComparisonLexicalPriority(a, b, f) ==
    CASE f.sortBy = "title" -> LocaleCompare(a.title, b.title)
      [] f.sortBy = "priority" ->
             LexicalPriority(a.priority) - LexicalPriority(b.priority)
      [] f.sortBy = "due-date" -> DueDateComparison(a, b)
      [] f.sortBy = "updated" -> a.updated_at - b.updated_at
      [] OTHER -> a.created_at - b.created_at

\* Mutant: every sort key compares the creation timestamps
ComparisonByCreated(a, b, f) == a.created_at - b.created_at

\* The value of comparison at the end of the switch
Comparison(a, b, f) ==
    CASE f.sortBy = "title" -> LocaleCompare(a.title, b.title)
      [] f.sortBy = "priority" -> PriorityOrder(a.priority) - PriorityOrder(b.priority)
      [] f.sortBy = "due-date" -> DueDateComparison(a, b)
      [] f.sortBy = "updated" -> a.updated_at - b.updated_at
      [] OTHER -> a.created_at - b.created_at

\* Mutant: the comparator negates the comparison in both directions
TaskCompareNegated(a, b, f) == 0 - Comparison(a, b, f)

\* Mutant: the comparator ignores sortOrder
TaskCompareAscending(a, b, f) == Comparison(a, b, f)

\* The value the comparator of useTaskSearch returns
TaskCompare(a, b, f) ==
    IF f.sortOrder = "asc" THEN Comparison(a, b, f) ELSE 0 - Comparison(a, b, f)

\* Mutant: the default branch compares the update timestamps
ProjectComparisonDefaultUpdated(a, b, f) ==
    CASE f.sortBy = "title" -> LocaleCompare(a.name, b.name)
      [] f.sortBy = "created" -> a.created_at - b.created_at
      [] OTHER -> a.updated_at - b.updated_at

\* The switch of the comparator of useProjectSearch
ProjectComparison(a, b, f) ==
    CASE f.sortBy = "title" -> LocaleCompare(a.name, b.name)
      [] f.sortBy = "updated" -> a.updated_at - b.updated_at
      [] OTHER -> a.created_at - b.created_at

\* The value the comparator of useProjectSearch returns
ProjectCompare(a, b, f) ==
    IF f.sortOrder = "asc" THEN ProjectComparison(a, b, f)
    ELSE 0 - ProjectComparison(a, b, f)

\* The comparator passed to sort by the hook of the given kind
Comparator(kind, a, b, f) ==
    IF kind = "task" THEN TaskCompare(a, b, f) ELSE ProjectCompare(a, b, f)

\* Mutant: x goes before the elements that compare equal to it
RECURSIVE InsertUnstable(_, _, _, _)
InsertUnstable(kind, s, x, f) ==
    IF s = <<>> THEN <<x>>
    ELSE IF Comparator(kind, s[Len(s)], x, f) >= 0
         THEN Append(InsertUnstable(kind, SubSeq(s, 1, Len(s) - 1), x, f), s[Len(s)])
         ELSE Append(s, x)

\* Array.prototype.sort is a stable sort (ECMAScript 2019): x goes after the
\* last element that does not compare greater than it.
RECURSIVE InsertStable(_, _, _, _)
InsertStable(kind, s, x, f) ==
    IF s = <<>> THEN <<x>>
    ELSE IF Comparator(kind, s[Len(s)], x, f) > 0
         THEN Append(InsertStable(kind, SubSeq(s, 1, Len(s) - 1), x, f), s[Len(s)])
         ELSE Append(s, x)

\* Mutant: a fold without a seed, which throws a TypeError on an empty array
RECURSIVE SortPrefixNoSeed(_, _, _, _)
SortPrefixNoSeed(kind, arr, k, f) ==
    IF k = 0 THEN <<"TypeError">>
    ELSE IF k = 1 THEN <<arr[1]>>
    ELSE InsertStable(kind, SortPrefixNoSeed(kind, arr, k - 1, f), arr[k], f)

RECURSIVE SortPrefix(_, _, _, _)
SortPrefix(kind, arr, k, f) ==
    IF k = 0 THEN <<>>
    ELSE InsertStable(kind, SortPrefix(kind, arr, k - 1, f), arr[k], f)

Reverse(arr) == [i \in 1..Len(arr) |-> arr[Len(arr) + 1 - i]]

\* Mutant: descending order by sorting ascending and reversing the array
ArraySortThenReverse(kind, w, f) ==
    LET asc == SortPrefix(kind, w.filtered, Len(w.filtered), [f EXCEPT !.sortOrder = "asc"])
        sorted == IF f.sortOrder = "asc" THEN asc ELSE Reverse(asc)
    IN  [input |-> IF w.same THEN sorted ELSE w.input,
         filtered |-> sorted, same |-> w.same]

\* filtered.sort(...) sorts the array in place
ArraySort(kind, w, f) ==
    LET sorted == SortPrefix(kind, w.filtered, Len(w.filtered), f)
    IN  [input |-> IF w.same THEN sorted ELSE w.input,
         filtered |-> sorted, same |-> w.same]

\* The body of the useMemo of useTaskSearch, run at instant n
ComputeFilteredTasks(ts, f, n) ==
    ArraySort("task",
        FilterByDueDate(
            FilterByTag(
                FilterByPriority(
                    FilterByStatus(
                        FilterBySearch(SpreadCopy(ts), f), f), f), f), f, n),
        f)

\* Text search predicate of useProjectSearch; term is the lower-cased term.
\* An absent description is the empty sequence of descriptions.
MatchesProjectSearch(project, term) ==
    \/ Includes(ToLowerCase(project.name), term)
    \/ /\ project.description # <<>>
       /\ project.description[1] # Str_empty
       /\ Includes(ToLowerCase(project.description[1]), term)

FilterProjectsBySearch(w, f) ==
    IF SearchActive(f)
    THEN FilterResult(w, SelectSeq(w.filtered,
             LAMBDA p : MatchesProjectSearch(p, ToLowerCase(f.searchTerm))))
    ELSE w

\* The body of the useMemo of useProjectSearch
ComputeFilteredProjects(ps, f) ==
    ArraySort("project", FilterProjectsBySearch(SpreadCopy(ps), f), f)

\* Mutant: only the search term counts as an active filter
HasActiveFiltersSearchOnly(f) == f.searchTerm # Str_empty

\* hasActiveFilters of useTaskSearch
HasActiveFilters(f) ==
    \/ f.searchTerm # Str_empty
    \/ f.statusFilter # "all"
    \/ f.priorityFilter # "all"
    \/ f.tagFilter # Str_all
    \/ f.dueDateFilter # "all"


\* hasActiveFilters of useProjectSearch
ProjectHasActiveFilters(f) == f.searchTerm # Str_empty

----------------------------------------------------------------------------
(* TagManager and TimeTracker: the values their handlers compute *)

\* String.prototype.trim
RECURSIVE TrimStart(_)
TrimStart(s) == IF s # <<>> /\ Head(s) = " " THEN TrimStart(Tail(s)) ELSE s

RECURSIVE TrimEnd(_)
TrimEnd(s) ==
    IF s # <<>> /\ s[Len(s)] = " " THEN TrimEnd(SubSeq(s, 1, Len(s) - 1)) ELSE s

Trim(s) == TrimEnd(TrimStart(s))

\* The tag handleAddTag builds from the input
TypedTag(input) == ToLowerCase(Trim(input))

\* suggestedTags as the render computes it from the props and the input
SuggestedTags(all, ts, input) ==
    SelectSeq(all, LAMBDA tag :
        /\ Includes(ToLowerCase(tag), ToLowerCase(input))
        /\ ~ArrayIncludes(ts, tag)
        /\ Len(input) > 0)

\* suggestedTags.slice(0, 5)
ShownSuggestions(all, ts, input) ==
    LET s == SuggestedTags(all, ts, input) IN
    SubSeq(s, 1, IF Len(s) < 5 THEN Len(s) ELSE 5)

\* parseInt on a string of digits, sign and decimal point: the leading
\* integer, or no value (NaN) when the string does not start with one
DigitValue(c) == CASE c = "0" -> 0 [] c = "1" -> 1 [] c = "2" -> 2
IsDigit(c) == c \in {"0", "1", "2"}

RECURSIVE DigitsPrefix(_)
DigitsPrefix(s) ==
    IF s # <<>> /\ IsDigit(Head(s)) THEN <<Head(s)>> \o DigitsPrefix(Tail(s))
    ELSE <<>>

RECURSIVE DigitsValue(_)
DigitsValue(d) ==
    IF d = <<>> THEN 0
    ELSE 10 * DigitsValue(SubSeq(d, 1, Len(d) - 1)) + DigitValue(d[Len(d)])

ParseInt(s) ==
    LET negative == s # <<>> /\ Head(s) = "-"
        d == DigitsPrefix(IF negative THEN Tail(s) ELSE s)
    IN  IF d = <<>> THEN <<>>
        ELSE <<IF negative THEN 0 - DigitsValue(d) ELSE DigitsValue(d)>>

\* Math.floor(diffMs / (1000 * 60)) of the interval callback
SessionMinutes(nowAt, startedAt) == (nowAt - startedAt) \div TicksPerMinute

----------------------------------------------------------------------------
(* The mock useTasks hook: the values its callbacks compute *)

\* A task of the mock hook: id and status, with the status it had before the
\* toggles applied since its status was last set, and their number modulo 3
MockTask(id, status) ==
    [id |-> id, status |-> status, origin |-> status, toggles |-> 0]

\* mockTasks
MockTasks ==
    <<MockTask(1, "done"), MockTask(2, "done"), MockTask(3, "in-progress"),
      MockTask(4, "in-progress"), MockTask(5, "todo"), MockTask(6, "todo")>>

\* Mutant: a task that is done goes back to in-progress
ToggledStatusBack(status) ==
    CASE status = "todo" -> "in-progress"
      [] status = "in-progress" -> "done"
      [] status = "done" -> "in-progress"
      [] OTHER -> "todo"

\* The switch of toggleTaskStatus
ToggledStatus(status) ==
    CASE status = "todo" -> "in-progress"
      [] status = "in-progress" -> "done"
      [] status = "done" -> "todo"
      [] OTHER -> "todo"

\* The milliseconds of the setTimeout a call waits for
Delay(call) ==
    CASE call.op = "load" -> 1000
      [] call.op = "addTask" -> 500
      [] call.op = "updateTask" -> 300
      [] OTHER -> 200

\* The timer of the k-th call in flight can fire next: no call started
\* before it waits for as short or a shorter time
TimerCanFire(pending, k) ==
    \A j \in 1..(k - 1) : Delay(pending[j]) > Delay(pending[k])

RemoveAt(s, k) == SubSeq(s, 1, k - 1) \o SubSeq(s, k + 1, Len(s))

\* Mutant: the new task takes the id the state holds when the timer fires
NewTaskIdFromState(call, nextId) == nextId

\* The id of newTask: the nextId of the render in which addTask was called
NewTaskId(call, nextId) == call.id

\* The functional update each call hands to setTasks when its timer fires
MockApply(ts, call, nextId) ==
    CASE call.op = "load" -> MockTasks
      [] call.op = "addTask" -> Append(ts, MockTask(NewTaskId(call, nextId), "todo"))
      [] call.op = "updateTask" ->
             [k \in 1..Len(ts) |->
                 IF ts[k].id = call.id /\ call.status # <<>>
                 THEN MockTask(ts[k].id, call.status[1])
                 ELSE ts[k]]
      [] call.op = "deleteTask" -> SelectSeq(ts, LAMBDA t : t.id # call.id)
      [] call.op = "toggleTaskStatus" ->
             [k \in 1..Len(ts) |->
                 IF ts[k].id = call.id
                 THEN [ts[k] EXCEPT !.status = ToggledStatus(@),
                                    !.toggles = (@ + 1) % 3]
                 ELSE ts[k]]

----------------------------------------------------------------------------
(* useTasks(projectId): what the backend returns and what the callbacks do
   with it *)

\* A task as the backend returns it: its id, its project, and updated_at,
\* which changes with every update the backend makes
StoredTask(id, project) == [id |-> id, project_id |-> project, updated_at |-> 0]

\* The tasks in the store when the hook mounts
AllTasks == <<StoredTask(1, 1), StoredTask(2, 2)>>

\* The result of get_tasks_by_project({projectId}), or of get_tasks when
\* projectId is undefined
TasksOf(projectId) ==
    IF projectId = <<>> THEN AllTasks
    ELSE SelectSeq(AllTasks, LAMBDA t : t.project_id = projectId[1])

\* The statistics the hook builds from get_project_stats or get_task_stats
StatsOf(projectId) == <<[total |-> Len(TasksOf(projectId)), of |-> projectId]>>

\* The setTasks update after the command of a call resolved with value
ApplyResolved(ts, call, value) ==
    CASE call.fn = "loadTasks" -> value
      [] call.fn = "addTask" -> Append(ts, value)
      [] call.fn = "deleteTask" -> SelectSeq(ts, LAMBDA t : t.id # call.id)
      [] OTHER -> [k \in 1..Len(ts) |-> IF ts[k].id = value.id THEN value ELSE ts[k]]

\* What the backend answers to the command of a call on the tasks the hook
\* holds
Answer(ts, call) ==
    CASE call.fn = "loadTasks" -> TasksOf(call.projectId)
      [] call.fn = "addTask" -> StoredTask(call.id, 1)
      [] call.fn = "deleteTask" -> call.id
      [] OTHER -> [id |-> call.id, project_id |-> 1, updated_at |-> 1]

\* The callbacks that reload the statistics after their command
ReloadsStats(fn) == fn \in {"addTask", "updateTask", "deleteTask", "toggleTaskStatus"}

\* Mutant: the catch block records the error and does not throw it again
CaughtSwallowed(h, k) ==
    [h EXCEPT !.error = <<"err">>, !.loading = FALSE,
              !.calls = RemoveAt(@, k), !.rejected = FALSE]

\* catch and finally of a callback whose command was rejected: loadTasks
\* does not throw the error again, the other callbacks do
Caught(h, k) ==
    [h EXCEPT !.error = <<"err">>, !.loading = FALSE,
              !.calls = RemoveAt(@, k),
              !.rejected = h.calls[k].fn # "loadTasks"]

----------------------------------------------------------------------------
(* DataManagement.handleImport *)

\* Mutant: handleImport goes on to the confirmation whatever the validation
InvalidNever(validation) == FALSE

\* if (!validation.valid): alert the errors and return
Invalid(validation) == ~validation.valid

\* The finally block of handleImport
Finally(imp) == [imp EXCEPT !.pc = "idle", !.isImporting = FALSE]

----------------------------------------------------------------------------
(* useProjectManagement *)

\* A call in flight with what its closure holds of the state of the hook
PmCall(fn, projectId, currentProject, projs) ==
    [fn |-> fn, projectId |-> projectId, currentProject |-> currentProject,
     projects |-> projs]

\* The projects of the store in the order get_projects returns them
RECURSIVE StoredProjects(_)
StoredProjects(store) ==
    IF store = {} THEN <<>>
    ELSE LET least == CHOOSE x \in store : \A y \in store : x <= y
         IN <<least>> \o StoredProjects(store \ {least})

\* prev.filter(p => p.id !== projectId)
WithoutProject(projs, projectId) == SelectSeq(projs, LAMBDA x : x # projectId)

\* The value deleteProject leaves in currentProject after delete_project
\* resolved: the closure of the call decides
CurrentAfterDelete(current, call) ==
    IF call.currentProject = <<call.projectId>>
    THEN LET remainingProjects == WithoutProject(call.projects, call.projectId)
         IN IF Len(remainingProjects) > 0 THEN <<remainingProjects[1]>> ELSE <<>>
    ELSE current

\* The effect on currentProject: a project set as current starts loadProjects
AutoRefresh(h, changed) ==
    IF changed /\ h.currentProject # <<>>
    THEN [h EXCEPT !.loading = TRUE, !.error = <<>>,
                   !.calls = Append(@, PmCall("loadProjects", 0, <<>>, <<>>))]
    ELSE h

----------------------------------------------------------------------------
(* NotificationProvider *)

\* Mutant: notification.duration ?? 5000, which keeps a duration of 0
DurationOrDefaultNullish(duration) ==
    IF duration = <<>> THEN DefaultDuration ELSE duration[1]

\* notification.duration || 5000: a missing duration and a duration of 0
\* both become 5000
DurationOrDefault(duration) ==
    IF duration = <<>> \/ duration[1] = 0 THEN DefaultDuration ELSE duration[1]

\* [newNotification, ...prev].slice(0, maxNotifications)
Slice(updated, max) == SubSeq(updated, 1, IF Len(updated) < max THEN Len(updated) ELSE max)

\* A timer fires when no timer started before it is due at the same time or
\* earlier
NotifyTimerCanFire(timers, k) ==
    \A j \in 1..(k - 1) : timers[j].duration > timers[k].duration

----------------------------------------------------------------------------
(* Inputs: the records and filter values the handlers are called with *)

Noon(d) == At(d, TicksPerDay - 1)

BaseTask ==
    [id |-> 0, title |-> <<"b">>, description |-> Str_empty, tags |-> <<>>,
     status |-> "todo", priority |-> "medium",
     created_at |-> 1, updated_at |-> 2, due_date |-> <<>>]

\* Tasks that differ from BaseTask in one of the fields the sort reads
SortPool ==
    {BaseTask,
     [BaseTask EXCEPT !.priority = "low"],
     [BaseTask EXCEPT !.priority = "high"],
     [BaseTask EXCEPT !.due_date = <<Noon(0)>>],
     [BaseTask EXCEPT !.due_date = <<Noon(1)>>],
     [BaseTask EXCEPT !.created_at = 2],
     [BaseTask EXCEPT !.updated_at = 3],
     [BaseTask EXCEPT !.title = <<"B">>]}

SortDomain ==
    [sortBy |-> SortKeys, sortOrder |-> SortOrders,
     priorityFilter |-> {"all", "medium"}]

\* Tasks that differ from BaseTask in one of the fields the filters read
FilterPool ==
    {BaseTask,
     [BaseTask EXCEPT !.status = "done"],
     [BaseTask EXCEPT !.priority = "high"],
     [BaseTask EXCEPT !.due_date = <<Noon(0)>>],
     [BaseTask EXCEPT !.due_date = <<Noon(1)>>],
     [BaseTask EXCEPT !.title = <<"a">>],
     [BaseTask EXCEPT !.tags = <<<<"a">>>>]}

FilterDomain ==
    [searchTerm |-> {Str_empty, <<"a">>},
     statusFilter |-> Statuses \cup {"all"},
     priorityFilter |-> Priorities \cup {"all"},
     tagFilter |-> {Str_all, <<"a">>},
     dueDateFilter |-> DueDateFilters]

\* Tasks that differ in the text the search reads
SearchPool ==
    {BaseTask,
     [BaseTask EXCEPT !.title = <<"A", "b">>],
     [BaseTask EXCEPT !.title = <<"a">>],
     [BaseTask EXCEPT !.description = <<"B", "a">>],
     [BaseTask EXCEPT !.tags = <<<<"a">>>>],
     [BaseTask EXCEPT !.tags = <<<<"b">>, <<"a", "b">>>>]}

SearchDomain ==
    [searchTerm |-> {Str_empty, <<"a">>, <<"A", "B">>, <<"b", "a">>},
     tagFilter |-> {Str_all, <<"a">>, <<"A">>}]

\* The Saturday that ends the week of day d
WeekLastDay(d) == d - GetDay(d) + 6

\* The days the clock passes through, the Saturday before the first of them,
\* the last day of its month, and the Saturday and Sunday that follow
DueDays ==
    (0..DayOf(MaxNow))
    \cup {0 - 1, MonthLastDay(0), WeekLastDay(0), WeekLastDay(0) + 1}

\* Tasks that differ in their due date: undated, or due at the first or the
\* last instant of one of the days
DuePool ==
    {BaseTask}
    \cup {[BaseTask EXCEPT !.due_date = <<At(d, k)>>] :
             d \in DueDays, k \in {0, TicksPerDay - 1}}

DueDomain == [dueDateFilter |-> DueDateFilters]

\* Tasks given oldest first, one of them done and overdue
ViewPool ==
    {BaseTask,
     [BaseTask EXCEPT !.status = "done", !.due_date = <<Noon(0)>>, !.created_at = 2]}

ViewDomain ==
    [searchTerm |-> {Str_empty, <<"a">>},
     statusFilter |-> {"all", "done"},
     dueDateFilter |-> {"all", "overdue"},
     sortOrder |-> SortOrders]

BaseProject ==
    [id |-> 0, name |-> <<"b">>, description |-> <<>>,
     created_at |-> 1, updated_at |-> 2]

ProjectPool ==
    {BaseProject,
     [BaseProject EXCEPT !.description = <<<<"B", "a">>>>, !.created_at = 2],
     [BaseProject EXCEPT !.name = <<"A", "b">>, !.updated_at = 3]}

ProjectDomain ==
    [searchTerm |-> {Str_empty, <<"A">>}, sortOrder |-> SortOrders]

\* Every field of the filter state, as the project list's SearchFilter sets it
ProjectSearchDomain ==
    [searchTerm |-> {Str_empty, <<"A">>},
     statusFilter |-> {"all", "done"},
     priorityFilter |-> {"all", "high"},
     tagFilter |-> {Str_all, <<"a">>},
     dueDateFilter |-> {"all", "overdue"},
     sortBy |-> SortKeys,
     sortOrder |-> SortOrders]

\* What the user types into the tag input
TagInputs == {Str_empty, <<" ">>, <<"a">>, <<"A", " ">>, <<"b">>}

\* task.tags of the task whose detail view is opened
TagLists == {<<>>, <<<<"a">>>>}

\* What get_all_tags returns: the tags of all tasks in the store
AllTagLists == {<<>>, <<<<"a">>, <<"B">>, <<"a", "b">>>>}

\* What the user types into the manual time input (type="number")
ManualInputs == {Str_empty, <<"0">>, <<"2">>, <<"-", "1">>, <<"1", ".", "2">>}

\* The id the callers of the mock hook pass: that of the first task added
MockOpIds == {InitialNextId}

\* The status of a TaskUpdateRequest: absent or one of the TaskStatus values
RequestStatuses == {<<>>} \cup {<<s>> : s \in Statuses}

\* currentProject.id as App passes it to useTasks
ProjectIds == {1, 2}

\* The id of the task a callback of useTasks is called for
HookOpIds == {1}

\* The id the backend gives the task add_task creates
NewTaskIds == {3}

\* The contents of the files the user can select
FileContents == {"c1", "c2"}

\* The duration a notification is added with: none, or milliseconds
Durations == {<<>>, <<0>>, <<3000>>, <<0 - 1>>}

----------------------------------------------------------------------------
(* The hooks as state machines *)

\* A render of useTaskSearch with props ts and state f: the memo runs
RenderTasks(ts, f) ==
    LET w == ComputeFilteredTasks(ts, f, now) IN
    /\ tasks' = w.input
    /\ searchFilters' = f
    /\ filteredItems' = w.filtered
    /\ resultCount' = Len(w.filtered)
    /\ evalAt' = now

\* A render of useProjectSearch with props ps and state f
RenderProjects(ps, f) ==
    LET w == ComputeFilteredProjects(ps, f) IN
    /\ projects' = w.input
    /\ projectFilters' = f
    /\ filteredProjects' = w.filtered
    /\ projectCount' = Len(w.filtered)

\* TagManager mounted in the detail view of a task without tags
InitTagManager ==
    /\ tags = <<>>
    /\ allTags = <<>>
    /\ newTag = Str_empty
    /\ showSuggestions = FALSE
    /\ onAddTagCalls = <<>>

\* TimeTracker mounted
InitTimeTracker ==
    /\ isTracking = FALSE
    /\ startTime = <<>>
    /\ currentSession = 0
    /\ manualTime = Str_empty
    /\ onAddTimeCalls = <<>>
    /\ wallClock = 0

\* The mock useTasks hook mounted: the effect has started the initial load
InitMock ==
    mock = [tasks |-> <<>>, loading |-> TRUE, error |-> <<>>,
            nextId |-> InitialNextId, pending |-> <<[op |-> "load"]>>,
            addCalls |-> 0]

\* useTasks(undefined) mounted: the effect has called loadTasks and loadStats
InitHook ==
    hook = [projectId |-> <<>>, tasks |-> <<>>, stats |-> <<>>,
            loading |-> TRUE, error |-> <<>>,
            calls |-> <<[fn |-> "loadTasks", stage |-> "command", projectId |-> <<>>, id |-> 0],
                        [fn |-> "loadStats", stage |-> "stats", projectId |-> <<>>, id |-> 0]>>,
            rejected |-> FALSE, switches |-> 0]

\* DataManagement mounted: nothing imported, replace mode
InitImporter ==
    importer = [pc |-> "idle", isImporting |-> FALSE, importResult |-> <<>>,
                importValidation |-> <<>>, mergeMode |-> FALSE,
                closure |-> FALSE, fileContent |-> <<>>,
                validated |-> <<>>, confirmed |-> <<>>, imported |-> <<>>,
                onDataChangedCalls |-> 0, imports |-> 0]

\* useProjectManagement mounted: initializeData has called loadProjects
InitPm ==
    pm = [projects |-> <<>>, currentProject |-> <<>>, loading |-> TRUE,
          error |-> <<>>, calls |-> <<PmCall("initializeData", 0, <<>>, <<>>)>>,
          store |-> 1..MaxStored, deleted |-> <<>>, switches |-> 0]

\* NotificationProvider mounted: no notification, no timer
InitNotifier ==
    notifier = [notifications |-> <<>>, timers |-> <<>>, nextId |-> 1]

\* Both hooks mounted at instant n with empty collections
InitAt(n) ==
    /\ now = n
    /\ tasks = <<>>
    /\ searchFilters = DefaultFilters
    /\ filteredItems = <<>>
    /\ resultCount = 0
    /\ evalAt = n
    /\ projects = <<>>
    /\ projectFilters = DefaultFilters
    /\ filteredProjects = <<>>
    /\ projectCount = 0
    /\ InitTagManager
    /\ InitTimeTracker
    /\ InitMock
    /\ InitHook
    /\ InitImporter
    /\ InitPm
    /\ InitNotifier

\* SearchFilter.updateFilter(key, value), whose effect calls updateFilters
UpdateFilters(dom) ==
    /\ \E key \in DOMAIN dom : \E v \in dom[key] :
           RenderTasks(tasks, [searchFilters EXCEPT ![key] = v])
    /\ UNCHANGED <<now, projectVars, tagVars, trackerVars, appVars>>

ClearFilters ==
    /\ RenderTasks(tasks, DefaultFilters)
    /\ UNCHANGED <<now, projectVars, tagVars, trackerVars, appVars>>

\* The parent passes a new tasks array with one more task
SetTasks(pool, max) ==
    /\ Len(tasks) < max
    /\ \E t \in pool :
           RenderTasks(Append(tasks, [t EXCEPT !.id = Len(tasks) + 1]), searchFilters)
    /\ UNCHANGED <<now, projectVars, tagVars, trackerVars, appVars>>

\* The host clock advances; nothing the memo depends on changes
Tick ==
    /\ now < MaxNow
    /\ now' = now + 1
    /\ UNCHANGED <<taskVars, projectVars, tagVars, trackerVars, appVars>>

UpdateProjectFilters(dom) ==
    /\ \E key \in DOMAIN dom : \E v \in dom[key] :
           RenderProjects(projects, [projectFilters EXCEPT ![key] = v])
    /\ UNCHANGED <<now, taskVars, tagVars, trackerVars, appVars>>

ClearProjectFilters ==
    /\ RenderProjects(projects, DefaultFilters)
    /\ UNCHANGED <<now, taskVars, tagVars, trackerVars, appVars>>

SetProjects ==
    /\ Len(projects) < MaxProjects
    /\ \E p \in ProjectPool :
           RenderProjects(Append(projects, [p EXCEPT !.id = Len(projects) + 1]),
                          projectFilters)
    /\ UNCHANGED <<now, taskVars, tagVars, trackerVars, appVars>>

----------------------------------------------------------------------------
(* TagManager *)

\* handleTaskClick opens the detail view: TagManager mounts with task.tags
OpenTaskDetail ==
    /\ \E ts \in TagLists : tags' = ts
    /\ newTag' = Str_empty
    /\ showSuggestions' = FALSE
    /\ UNCHANGED <<allTags, onAddTagCalls>>
    /\ UNCHANGED <<now, taskVars, projectVars, trackerVars, appVars>>

\* loadTags of the detail view resolves: setAllTags(tags)
LoadTags ==
    /\ \E all \in AllTagLists : allTags' = all
    /\ UNCHANGED <<tags, newTag, showSuggestions, onAddTagCalls>>
    /\ UNCHANGED <<now, taskVars, projectVars, trackerVars, appVars>>

\* onChange of the input
ChangeNewTag ==
    /\ \E v \in TagInputs :
           /\ newTag' = v
           /\ showSuggestions' = (Len(v) > 0)
    /\ UNCHANGED <<tags, allTags, onAddTagCalls>>
    /\ UNCHANGED <<now, taskVars, projectVars, trackerVars, appVars>>

\* handleAddTag; nothing happens when its condition is false
HandleAddTag ==
    LET tag == TypedTag(newTag) IN
    /\ Len(onAddTagCalls) < MaxTagCalls
    /\ tag # Str_empty /\ ~ArrayIncludes(tags, tag)
    /\ onAddTagCalls' = Append(onAddTagCalls,
                                [tag |-> tag, tags |-> tags, via |-> "handleAddTag"])
    /\ newTag' = Str_empty
    /\ showSuggestions' = FALSE
    /\ UNCHANGED <<tags, allTags>>
    /\ UNCHANGED <<now, taskVars, projectVars, trackerVars, appVars>>

\* onClick of the add button, which is disabled while the input is blank
ClickAddButton ==
    /\ Trim(newTag) # Str_empty
    /\ HandleAddTag

\* handleKeyPress with the Enter key
HandleKeyPress ==
    /\ \E key \in {"Enter", "a"} : key = "Enter"
    /\ HandleAddTag

\* onClick of one of the suggestions shown
ClickSuggestion ==
    /\ Len(onAddTagCalls) < MaxTagCalls
    /\ showSuggestions
    /\ \E k \in 1..Len(ShownSuggestions(allTags, tags, newTag)) :
           onAddTagCalls' = Append(onAddTagCalls,
               [tag |-> ShownSuggestions(allTags, tags, newTag)[k],
                tags |-> tags, via |-> "suggestion"])
    /\ newTag' = Str_empty
    /\ showSuggestions' = FALSE
    /\ UNCHANGED <<tags, allTags>>
    /\ UNCHANGED <<now, taskVars, projectVars, trackerVars, appVars>>

----------------------------------------------------------------------------
(* TimeTracker *)

\* Time passes on the host
WallClockAdvance ==
    /\ wallClock < MaxWallClock
    /\ wallClock' = wallClock + 1
    /\ UNCHANGED <<isTracking, startTime, currentSession, manualTime, onAddTimeCalls>>
    /\ UNCHANGED <<now, taskVars, projectVars, tagVars, appVars>>

\* The host's clock is set back
WallClockSetBack ==
    /\ wallClock > 0
    /\ wallClock' = wallClock - 1
    /\ UNCHANGED <<isTracking, startTime, currentSession, manualTime, onAddTimeCalls>>
    /\ UNCHANGED <<now, taskVars, projectVars, tagVars, appVars>>

StartTracking ==
    /\ ~isTracking
    /\ isTracking' = TRUE
    /\ startTime' = <<wallClock>>
    /\ currentSession' = 0
    /\ UNCHANGED <<manualTime, onAddTimeCalls, wallClock>>
    /\ UNCHANGED <<now, taskVars, projectVars, tagVars, appVars>>

\* The callback of setInterval, which runs while tracking
IntervalCallback ==
    /\ isTracking /\ startTime # <<>>
    /\ currentSession' = SessionMinutes(wallClock, startTime[1])
    /\ UNCHANGED <<isTracking, startTime, manualTime, onAddTimeCalls, wallClock>>
    /\ UNCHANGED <<now, taskVars, projectVars, tagVars, appVars>>

\* Mutant: the session is handed to onAddTime whatever its length
StopTrackingUnguarded ==
    /\ isTracking
    /\ Len(onAddTimeCalls) < MaxTimeCalls
    /\ onAddTimeCalls' =
           Append(onAddTimeCalls, [minutes |-> currentSession, via |-> "stopTracking"])
    /\ isTracking' = FALSE
    /\ startTime' = <<>>
    /\ currentSession' = 0
    /\ UNCHANGED <<manualTime, wallClock>>
    /\ UNCHANGED <<now, taskVars, projectVars, tagVars, appVars>>

StopTracking ==
    /\ isTracking
    /\ Len(onAddTimeCalls) < MaxTimeCalls
    /\ onAddTimeCalls' =
           IF currentSession > 0
           THEN Append(onAddTimeCalls,
                       [minutes |-> currentSession, via |-> "stopTracking"])
           ELSE onAddTimeCalls
    /\ isTracking' = FALSE
    /\ startTime' = <<>>
    /\ currentSession' = 0
    /\ UNCHANGED <<manualTime, wallClock>>
    /\ UNCHANGED <<now, taskVars, projectVars, tagVars, appVars>>

\* onChange of the manual time input
ChangeManualTime ==
    /\ \E v \in ManualInputs : manualTime' = v
    /\ UNCHANGED <<isTracking, startTime, currentSession, onAddTimeCalls, wallClock>>
    /\ UNCHANGED <<now, taskVars, projectVars, tagVars, appVars>>

\* addManualTime; nothing happens when its condition is false
AddManualTime ==
    LET minutes == ParseInt(manualTime) IN
    /\ Len(onAddTimeCalls) < MaxTimeCalls
    /\ minutes # <<>> /\ minutes[1] > 0
    /\ onAddTimeCalls' =
           Append(onAddTimeCalls, [minutes |-> minutes[1], via |-> "addManualTime"])
    /\ manualTime' = Str_empty
    /\ UNCHANGED <<isTracking, startTime, currentSession, wallClock>>
    /\ UNCHANGED <<now, taskVars, projectVars, tagVars, appVars>>

----------------------------------------------------------------------------
(* The mock useTasks hook *)

\* The synchronous part of every callback, up to its await
MockStart(call) ==
    /\ Len(mock.pending) < MaxPending
    /\ mock' = [mock EXCEPT !.loading = TRUE, !.error = <<>>,
                            !.pending = Append(@, call)]

MockAddTask ==
    /\ mock.addCalls < MaxMockAdds
    /\ Len(mock.pending) < MaxPending
    /\ mock' = [mock EXCEPT !.loading = TRUE, !.error = <<>>,
                            !.pending = Append(@, [op |-> "addTask", id |-> mock.nextId]),
                            !.addCalls = @ + 1]
    /\ UNCHANGED exceptMock

MockUpdateTask ==
    /\ \E id \in MockOpIds, st \in RequestStatuses :
           MockStart([op |-> "updateTask", id |-> id, status |-> st])
    /\ UNCHANGED exceptMock

\* changeTaskStatus, which TaskList calls with the next status of the cycle
MockChangeTaskStatus ==
    /\ \E id \in MockOpIds, s \in Statuses :
           MockStart([op |-> "updateTask", id |-> id, status |-> <<s>>])
    /\ UNCHANGED exceptMock

MockDeleteTask ==
    /\ \E id \in MockOpIds : MockStart([op |-> "deleteTask", id |-> id])
    /\ UNCHANGED exceptMock

MockToggleTaskStatus ==
    /\ \E id \in MockOpIds : MockStart([op |-> "toggleTaskStatus", id |-> id])
    /\ UNCHANGED exceptMock

\* A timer fires: the rest of the callback after its await, or the callback
\* of the initial load
MockTimerFires ==
    /\ \E k \in 1..Len(mock.pending) :
           /\ TimerCanFire(mock.pending, k)
           /\ mock' = [mock EXCEPT
                  !.tasks = MockApply(@, mock.pending[k], mock.nextId),
                  !.nextId = IF mock.pending[k].op = "addTask" THEN @ + 1 ELSE @,
                  !.loading = FALSE,
                  !.pending = RemoveAt(@, k)]
    /\ UNCHANGED exceptMock

----------------------------------------------------------------------------
(* useTasks(projectId) *)

\* A callback runs up to its first await: setLoading(true), setError(null)
HookStart(fn, id) ==
    /\ Len(hook.calls) < MaxInFlight
    /\ hook' = [hook EXCEPT
           !.loading = TRUE, !.error = <<>>,
           !.calls = Append(@, [fn |-> fn, stage |-> "command",
                                projectId |-> hook.projectId, id |-> id])]
    /\ UNCHANGED exceptHook

\* currentProject changes: the effect of useTasks calls loadTasks and
\* loadStats, and the effect of App calls refreshTasks
SetCurrentProject ==
    /\ hook.switches < MaxSwitches
    /\ \E p \in ProjectIds :
           /\ hook.projectId # <<p>>
           /\ hook' = [hook EXCEPT
                  !.projectId = <<p>>, !.loading = TRUE, !.error = <<>>,
                  !.switches = @ + 1,
                  !.calls = @ \o
                      <<[fn |-> "loadTasks", stage |-> "command", projectId |-> <<p>>, id |-> 0],
                        [fn |-> "loadStats", stage |-> "stats", projectId |-> <<p>>, id |-> 0],
                        [fn |-> "loadTasks", stage |-> "command", projectId |-> <<p>>, id |-> 0]>>]
    /\ UNCHANGED exceptHook

\* refresh
LoadTasks == HookStart("loadTasks", 0)

AddTask ==
    /\ Len(hook.tasks) < MaxHookTasks
    /\ \E id \in NewTaskIds : HookStart("addTask", id)

\* updateTask, also through changeTaskStatus
UpdateTask == \E id \in HookOpIds : HookStart("updateTask", id)

DeleteTask == \E id \in HookOpIds : HookStart("deleteTask", id)

ToggleTaskStatus == \E id \in HookOpIds : HookStart("toggleTaskStatus", id)

AddTaskTag == \E id \in HookOpIds : HookStart("addTaskTag", id)

\* The backend resolves the command of a call: setTasks, then either the
\* callback awaits loadStats or its finally block runs
CommandResolves ==
    /\ \E k \in 1..Len(hook.calls) :
           LET call == hook.calls[k] IN
           /\ call.stage = "command"
           /\ hook' = [hook EXCEPT
                  !.tasks = ApplyResolved(@, call, Answer(hook.tasks, call)),
                  !.loading = IF ReloadsStats(call.fn) THEN @ ELSE FALSE,
                  !.rejected = IF ReloadsStats(call.fn) THEN @ ELSE FALSE,
                  !.calls = IF ReloadsStats(call.fn)
                            THEN [@ EXCEPT ![k].stage = "stats"]
                            ELSE RemoveAt(@, k)]
    /\ UNCHANGED exceptHook

\* The backend rejects the command of a call
CommandRejects ==
    /\ \E k \in 1..Len(hook.calls) :
           /\ hook.calls[k].stage = "command"
           /\ hook' = Caught(hook, k)
    /\ UNCHANGED exceptHook

\* The backend resolves the statistics command of loadStats: setStats; a
\* callback that awaited loadStats then runs its finally block
StatsResolves ==
    /\ \E k \in 1..Len(hook.calls) :
           LET call == hook.calls[k] IN
           /\ call.stage = "stats"
           /\ hook' = [hook EXCEPT
                  !.stats = StatsOf(call.projectId),
                  !.loading = IF call.fn = "loadStats" THEN @ ELSE FALSE,
                  !.rejected = FALSE,
                  !.calls = RemoveAt(@, k)]
    /\ UNCHANGED exceptHook

\* The backend rejects the statistics command: loadStats logs the error, and
\* a callback that awaited loadStats runs its finally block
StatsRejects ==
    /\ \E k \in 1..Len(hook.calls) :
           LET call == hook.calls[k] IN
           /\ call.stage = "stats"
           /\ hook' = [hook EXCEPT
                  !.loading = IF call.fn = "loadStats" THEN @ ELSE FALSE,
                  !.rejected = FALSE,
                  !.calls = RemoveAt(@, k)]
    /\ UNCHANGED exceptHook

----------------------------------------------------------------------------
(* DataManagement *)

\* The merge checkbox
SetMergeMode ==
    /\ importer' = [importer EXCEPT !.mergeMode = ~@]
    /\ UNCHANGED exceptImporter

\* The Import button, disabled while isImporting: handleImport up to the
\* open dialog
HandleImport ==
    /\ ~importer.isImporting
    /\ importer.imports < MaxImports
    /\ importer' = [importer EXCEPT
           !.pc = "open", !.isImporting = TRUE, !.importResult = <<>>,
           !.importValidation = <<>>, !.closure = importer.mergeMode,
           !.fileContent = <<>>, !.validated = <<>>, !.confirmed = <<>>,
           !.imported = <<>>, !.imports = @ + 1]
    /\ UNCHANGED exceptImporter

\* The open dialog closes, with a file selected or cancelled
OpenResolves ==
    /\ importer.pc = "open"
    /\ \E selected \in BOOLEAN :
           importer' = IF selected THEN [importer EXCEPT !.pc = "read"]
                       ELSE Finally(importer)
    /\ UNCHANGED exceptImporter

\* readTextFile resolves: validate_import_data is invoked on the content
ReadResolves ==
    /\ importer.pc = "read"
    /\ \E content \in FileContents :
           importer' = [importer EXCEPT !.pc = "validate",
                           !.fileContent = <<content>>, !.validated = <<content>>]
    /\ UNCHANGED exceptImporter

\* validate_import_data resolves: an invalid file ends the import, a valid
\* one is imported when the user confirms
ValidateResolves ==
    /\ importer.pc = "validate"
    /\ \E valid \in BOOLEAN, answer \in BOOLEAN :
           LET validation == [valid |-> valid]
               shown == [importer EXCEPT !.importValidation = <<validation>>]
           IN importer' =
                IF Invalid(validation) THEN Finally(shown)
                ELSE IF answer
                     THEN [shown EXCEPT !.pc = "import", !.confirmed = <<TRUE>>,
                              !.imported = <<[jsonContent |-> importer.fileContent[1],
                                              mergeMode |-> importer.closure]>>]
                     ELSE Finally([shown EXCEPT !.confirmed = <<FALSE>>])
    /\ UNCHANGED exceptImporter

\* import_data_from_content resolves with its result
ImportResolves ==
    /\ importer.pc = "import"
    /\ \E success \in BOOLEAN :
           importer' = Finally([importer EXCEPT
                           !.importResult = <<[success |-> success]>>,
                           !.onDataChangedCalls = IF success THEN @ + 1 ELSE @])
    /\ UNCHANGED exceptImporter

\* The dialog, the read or a backend command is rejected: catch and finally
ImportRejects ==
    /\ importer.pc \in {"open", "read", "validate", "import"}
    /\ importer' = Finally(importer)
    /\ UNCHANGED exceptImporter

----------------------------------------------------------------------------
(* useProjectManagement *)

\* get_projects resolves or fails for loadProjects; initializeData then goes
\* on to loadCurrentProject
LoadProjectsSettles ==
    /\ \E k \in 1..Len(pm.calls), ok \in BOOLEAN :
           LET call == pm.calls[k] IN
           /\ call.fn \in {"loadProjects", "initializeData"}
           /\ pm' = [pm EXCEPT
                  !.projects = IF ok THEN StoredProjects(pm.store) ELSE @,
                  !.error = IF ok THEN @ ELSE <<"err">>,
                  !.loading = FALSE,
                  !.deleted = <<>>,
                  !.calls = IF call.fn = "initializeData"
                            THEN Append(RemoveAt(@, k), PmCall("loadCurrentProject", 0, <<>>, <<>>))
                            ELSE RemoveAt(@, k)]
    /\ UNCHANGED exceptPm

\* get_current_project resolves with the current project of the store or
\* with null, or fails
LoadCurrentProjectSettles ==
    /\ \E k \in 1..Len(pm.calls), result \in {<<>>} \cup {<<x>> : x \in pm.store}, ok \in BOOLEAN :
           /\ pm.calls[k].fn = "loadCurrentProject"
           /\ pm' = IF ok
                    THEN AutoRefresh([pm EXCEPT !.currentProject = result,
                                                !.deleted = <<>>,
                                                !.calls = RemoveAt(@, k)], TRUE)
                    ELSE [pm EXCEPT !.deleted = <<>>, !.calls = RemoveAt(@, k)]
    /\ UNCHANGED exceptPm

\* handleDeleteProject of ProjectManager, confirmed: deleteProject up to its
\* await
DeleteProject ==
    /\ Len(pm.calls) < MaxPmCalls
    /\ Len(pm.projects) > 1
    /\ \E k \in 1..Len(pm.projects) :
           pm' = [pm EXCEPT
                  !.loading = TRUE, !.error = <<>>, !.deleted = <<>>,
                  !.calls = Append(@, PmCall("deleteProject", pm.projects[k],
                                             pm.currentProject, pm.projects))]
    /\ UNCHANGED exceptPm

\* delete_project resolves
DeleteResolves ==
    /\ \E k \in 1..Len(pm.calls) :
           LET call == pm.calls[k]
               current == CurrentAfterDelete(pm.currentProject, call)
           IN /\ call.fn = "deleteProject"
              /\ call.projectId \in pm.store
              /\ pm' = AutoRefresh(
                     [pm EXCEPT
                         !.store = @ \ {call.projectId},
                         !.projects = WithoutProject(@, call.projectId),
                         !.currentProject = current,
                         !.loading = FALSE,
                         !.deleted = <<[projectId |-> call.projectId, ok |-> TRUE]>>,
                         !.calls = RemoveAt(@, k)],
                     call.currentProject = <<call.projectId>>)
    /\ UNCHANGED exceptPm

\* delete_project fails: setError, throw, finally
DeleteRejects ==
    /\ \E k \in 1..Len(pm.calls) :
           /\ pm.calls[k].fn = "deleteProject"
           /\ pm' = [pm EXCEPT
                  !.error = <<"err">>, !.loading = FALSE,
                  !.deleted = <<[projectId |-> pm.calls[k].projectId, ok |-> FALSE]>>,
                  !.calls = RemoveAt(@, k)]
    /\ UNCHANGED exceptPm

\* switchProject up to its await
SwitchProject ==
    /\ Len(pm.calls) < MaxPmCalls
    /\ pm.switches < MaxPmSwitches
    /\ \E k \in 1..Len(pm.projects) :
           pm' = [pm EXCEPT
                  !.loading = TRUE, !.error = <<>>, !.deleted = <<>>,
                  !.switches = @ + 1,
                  !.calls = Append(@, PmCall("switchProject", pm.projects[k], <<>>, <<>>))]
    /\ UNCHANGED exceptPm

\* switch_project resolves with the project, or fails
SwitchSettles ==
    /\ \E k \in 1..Len(pm.calls), ok \in BOOLEAN :
           LET call == pm.calls[k] IN
           /\ call.fn = "switchProject"
           /\ ok => call.projectId \in pm.store
           /\ pm' = IF ok
                    THEN AutoRefresh([pm EXCEPT !.currentProject = <<call.projectId>>,
                                                !.loading = FALSE,
                                                !.deleted = <<>>,
                                                !.calls = RemoveAt(@, k)], TRUE)
                    ELSE [pm EXCEPT !.error = <<"err">>, !.loading = FALSE,
                                    !.deleted = <<>>, !.calls = RemoveAt(@, k)]
    /\ UNCHANGED exceptPm

----------------------------------------------------------------------------
(* NotificationProvider *)

\* addNotification; the random id is modelled as a fresh one, and requested
\* keeps the duration the caller passed
AddNotification ==
    /\ notifier.nextId <= MaxNotified
    /\ \E requested \in Durations :
           LET id == notifier.nextId
               newNotification == [id |-> id, duration |-> DurationOrDefault(requested),
                                   requested |-> requested]
           IN notifier' = [notifier EXCEPT
                  !.notifications = Slice(<<newNotification>> \o @, maxNotifications),
                  !.timers = IF newNotification.duration > 0
                             THEN Append(@, [id |-> id, duration |-> newNotification.duration])
                             ELSE @,
                  !.nextId = @ + 1]
    /\ UNCHANGED exceptNotifier

\* removeNotification called by a consumer of the context
RemoveNotification ==
    /\ \E k \in 1..Len(notifier.notifications) :
           notifier' = [notifier EXCEPT
               !.notifications = SelectSeq(@, LAMBDA n : n.id # notifier.notifications[k].id)]
    /\ UNCHANGED exceptNotifier

ClearAllNotifications ==
    /\ notifier' = [notifier EXCEPT !.notifications = <<>>]
    /\ UNCHANGED exceptNotifier

\* The timer of a notification fires: removeNotification(id)
NotifyTimerFires ==
    /\ \E k \in 1..Len(notifier.timers) :
           /\ NotifyTimerCanFire(notifier.timers, k)
           /\ notifier' = [notifier EXCEPT
                  !.notifications = SelectSeq(@, LAMBDA n : n.id # notifier.timers[k].id),
                  !.timers = RemoveAt(@, k)]
    /\ UNCHANGED exceptNotifier

----------------------------------------------------------------------------
(* Specifications *)

\* Both hooks, each with its own copy of the filter state
Init == InitAt(Noon(1))
Next ==
    \/ UpdateFilters(ViewDomain)
    \/ ClearFilters
    \/ SetTasks(ViewPool, MaxFilterTasks)
    \/ UpdateProjectFilters(ProjectDomain)
    \/ ClearProjectFilters
    \/ SetProjects
Spec == Init /\ [][Next]_vars

\* Sorting: every sort key and direction, with and without a filter
InitSort == InitAt(Noon(1))
NextSort ==
    \/ UpdateFilters(SortDomain)
    \/ ClearFilters
    \/ SetTasks(SortPool, MaxTasks)
SpecSort == InitSort /\ [][NextSort]_vars

\* Filtering: combinations of the five filters
InitFilter == InitAt(Noon(1))
NextFilter ==
    \/ UpdateFilters(FilterDomain)
    \/ ClearFilters
    \/ SetTasks(FilterPool, MaxFilterTasks)
SpecFilter == InitFilter /\ [][NextFilter]_vars

\* Text search and tag filter
InitSearch == InitAt(Noon(1))
NextSearch ==
    \/ UpdateFilters(SearchDomain)
    \/ ClearFilters
    \/ SetTasks(SearchPool, MaxFilterTasks)
SpecSearch == InitSearch /\ [][NextSearch]_vars

\* The due-date filter while the clock advances
InitClock == InitAt(0)
NextClock ==
    \/ UpdateFilters(DueDomain)
    \/ ClearFilters
    \/ SetTasks(DuePool, MaxFilterTasks)
    \/ Tick
SpecClock == InitClock /\ [][NextClock]_vars

\* useProjectSearch under every field of the filter state
InitProject == InitAt(Noon(1))
NextProject ==
    \/ UpdateProjectFilters(ProjectSearchDomain)
    \/ ClearProjectFilters
    \/ SetProjects
SpecProject == InitProject /\ [][NextProject]_vars

\* Setting and clearing every filter of useTaskSearch
InitReset == InitAt(Noon(1))
NextReset ==
    \/ UpdateFilters(FilterDomain)
    \/ ClearFilters
    \/ SetTasks(ViewPool, MaxFilterTasks)
SpecReset == InitReset /\ [][NextReset]_vars

\* The mock useTasks hook
InitMockTasks == InitAt(Noon(1))
NextMockTasks ==
    \/ MockAddTask
    \/ MockUpdateTask
    \/ MockChangeTaskStatus
    \/ MockDeleteTask
    \/ MockToggleTaskStatus
    \/ MockTimerFires
SpecMockTasks == InitMockTasks /\ [][NextMockTasks]_vars

\* useTasks(projectId) while the current project changes and the backend
\* answers every command
InitSwitch == InitAt(Noon(1))
NextSwitch ==
    \/ SetCurrentProject
    \/ CommandResolves
    \/ StatsResolves
SpecSwitch == InitSwitch /\ [][NextSwitch]_vars

\* The callbacks of useTasks with a backend that answers or fails
InitHookCalls == InitAt(Noon(1))
NextHookCalls ==
    \/ LoadTasks
    \/ AddTask
    \/ UpdateTask
    \/ DeleteTask
    \/ ToggleTaskStatus
    \/ AddTaskTag
    \/ CommandResolves
    \/ CommandRejects
    \/ StatsResolves
    \/ StatsRejects
SpecHookCalls == InitHookCalls /\ [][NextHookCalls]_vars

\* The import section of DataManagement
InitImport == InitAt(Noon(1))
NextImport ==
    \/ SetMergeMode
    \/ HandleImport
    \/ OpenResolves
    \/ ReadResolves
    \/ ValidateResolves
    \/ ImportResolves
    \/ ImportRejects
SpecImport == InitImport /\ [][NextImport]_vars

\* useProjectManagement as ProjectManager uses it
InitProjectManagement == InitAt(Noon(1))
NextProjectManagement ==
    \/ LoadProjectsSettles
    \/ LoadCurrentProjectSettles
    \/ DeleteProject
    \/ DeleteResolves
    \/ DeleteRejects
    \/ SwitchProject
    \/ SwitchSettles
SpecProjectManagement == InitProjectManagement /\ [][NextProjectManagement]_vars

\* NotificationProvider; the browser fires every timer that is due
InitNotify == InitAt(Noon(1))
NextNotify ==
    \/ AddNotification
    \/ RemoveNotification
    \/ ClearAllNotifications
    \/ NotifyTimerFires
SpecNotify == InitNotify /\ [][NextNotify]_vars /\ WF_vars(NotifyTimerFires)

\* TagManager in the detail view of a task
InitTags == InitAt(Noon(1))
NextTags ==
    \/ OpenTaskDetail
    \/ LoadTags
    \/ ChangeNewTag
    \/ ClickAddButton
    \/ HandleKeyPress
    \/ ClickSuggestion
SpecTags == InitTags /\ [][NextTags]_vars

\* TimeTracker in the detail view of a task
InitTracker == InitAt(Noon(1))
NextTracker ==
    \/ WallClockAdvance
    \/ WallClockSetBack
    \/ StartTracking
    \/ IntervalCallback
    \/ StopTracking
    \/ ChangeManualTime
    \/ AddManualTime
SpecTracker == InitTracker /\ [][NextTracker]_vars

----------------------------------------------------------------------------
(* Properties *)

InArray(arr, x) == \E k \in 1..Len(arr) : arr[k] = x
IndexIn(arr, x) == CHOOSE k \in 1..Len(arr) : arr[k] = x
Before(arr, x, y) == IndexIn(arr, x) < IndexIn(arr, y)
OutputPairs == {p \in (1..Len(filteredItems)) \X (1..Len(filteredItems)) : p[1] < p[2]}

\* A task satisfies every active predicate of the filter state f at instant n
SatisfiesActive(t, f, n) ==
    /\ SearchActive(f) => MatchesSearch(t, ToLowerCase(f.searchTerm))
    /\ StatusActive(f) => MatchesStatus(t, f)
    /\ PriorityActive(f) => MatchesPriority(t, f)
    /\ TagActive(f) => MatchesTag(t, f)
    /\ DueDateActive(f) => InDueBucket(t, f, n)

\* C1: the output holds exactly the input tasks that satisfy every active
\* predicate: each output task is an input task that satisfies them all, and
\* each input task left out violates at least one of them.
C1_FilterConjunction ==
    /\ \A j \in 1..Len(filteredItems) :
           /\ InArray(tasks, filteredItems[j])
           /\ SatisfiesActive(filteredItems[j], searchFilters, evalAt)
    /\ \A i \in 1..Len(tasks) :
           ~InArray(filteredItems, tasks[i])
               => ~SatisfiesActive(tasks[i], searchFilters, evalAt)

\* Two filters are active; one task passes both and one fails
C1_Witness ==
    /\ StatusActive(searchFilters) /\ DueDateActive(searchFilters)
    /\ Len(tasks) = 2 /\ Len(filteredItems) = 1

\* C2: with sortBy 'due-date', no task without a due date precedes a task with
\* a due date, in either direction.
C2_UndatedLast ==
    searchFilters.sortBy = "due-date" =>
        \A p \in OutputPairs :
            ~(filteredItems[p[1]].due_date = <<>> /\ filteredItems[p[2]].due_date # <<>>)

\* C3: two output tasks that compare equal under the active sort key are in
\* the order they have in the input, in both directions.
C3_Stable ==
    \A p \in OutputPairs :
        Comparison(filteredItems[p[1]], filteredItems[p[2]], searchFilters) = 0
            => Before(tasks, filteredItems[p[1]], filteredItems[p[2]])

\* Descending order moved a task in front of two tasks that tie
C3_Witness ==
    /\ searchFilters.sortOrder = "desc"
    /\ Len(filteredItems) = 3
    /\ filteredItems[1] = tasks[3]
    /\ filteredItems[2] = tasks[1]
    /\ Comparison(tasks[1], tasks[2], searchFilters) = 0
    /\ Comparison(tasks[3], tasks[1], searchFilters) # 0

PriorityRank == [low |-> 1, medium |-> 2, high |-> 3]

\* C4: with sortBy 'priority' ascending, every task of lower rank
\* (low < medium < high) precedes every task of higher rank.
C4_PriorityAscending ==
    (searchFilters.sortBy = "priority" /\ searchFilters.sortOrder = "asc") =>
        \A i, j \in 1..Len(filteredItems) :
            PriorityRank[filteredItems[i].priority] < PriorityRank[filteredItems[j].priority]
                => i < j

\* Input high, medium, low comes out low, medium, high
C4_Witness ==
    /\ searchFilters.sortBy = "priority" /\ searchFilters.sortOrder = "asc"
    /\ Len(tasks) = 3
    /\ <<tasks[1].priority, tasks[2].priority, tasks[3].priority>>
           = <<"high", "medium", "low">>
    /\ filteredItems = <<tasks[3], tasks[2], tasks[1]>>

\* C5: with the default filter state the output is a permutation of the
\* input, ordered by creation timestamp descending.
C5_DefaultIsPermutation ==
    searchFilters = DefaultFilters =>
        /\ Len(filteredItems) = Len(tasks)
        /\ \A i \in 1..Len(tasks) : InArray(filteredItems, tasks[i])
        /\ \A j \in 1..Len(filteredItems) : InArray(tasks, filteredItems[j])
        /\ \A p \in OutputPairs :
               /\ filteredItems[p[1]] # filteredItems[p[2]]
               /\ filteredItems[p[1]].created_at >= filteredItems[p[2]].created_at

\* Default filters after clearFilters, on tasks given oldest first
C5_Witness ==
    /\ searchFilters = DefaultFilters
    /\ Len(tasks) = 3
    /\ tasks[1].created_at < tasks[3].created_at
    /\ filteredItems[1] = tasks[3]


\* C6: filtering and sorting the output again, with the same filter state at
\* the same instant, gives the output back.
C6_Idempotent ==
    ComputeFilteredTasks(filteredItems, searchFilters, evalAt).filtered = filteredItems

\* A filter dropped a task and the descending sort reordered tasks that tie
C6_Witness ==
    /\ PriorityActive(searchFilters)
    /\ searchFilters.sortOrder = "desc"
    /\ Len(tasks) = 3 /\ Len(filteredItems) = 2
    /\ Comparison(filteredItems[1], filteredItems[2], searchFilters) = 0

\* C7 as stated: the output the hook holds is the output an evaluation at any
\* later moment gives for the same tasks and the same filter state.
C7_SameAtAnyMoment ==
    filteredItems = ComputeFilteredTasks(tasks, searchFilters, now).filtered

\* C7 as amended: the output the hook holds is the output a later evaluation
\* gives for the same tasks and filter state when the due-date filter is
\* 'all' or the later evaluation runs on the same calendar day.
C7_SameOnSameDay ==
    (searchFilters.dueDateFilter = "all" \/ DayOf(evalAt) = DayOf(now)) =>
        filteredItems = ComputeFilteredTasks(tasks, searchFilters, now).filtered

\* The overdue filter evaluated earlier on the day that is still current
C7_Witness ==
    /\ searchFilters.dueDateFilter = "overdue"
    /\ evalAt < now /\ DayOf(evalAt) = DayOf(now)
    /\ Len(tasks) = 2 /\ Len(filteredItems) = 1

\* C8: a step of either hook leaves the elements its input array had in
\* place and unmodified: the input after the step is the input before it,
\* or the input before it with the new record the parent appended.
C8_InputPreserved ==
    [][/\ SubSeq(tasks', 1, Len(tasks)) = tasks
       /\ Len(tasks') <= Len(tasks) + 1
       /\ SubSeq(projects', 1, Len(projects)) = projects
       /\ Len(projects') <= Len(projects) + 1]_vars

\* Both hooks hold an output ordered differently from their input
C8_Witness ==
    /\ Len(tasks) >= 2 /\ Len(filteredItems) = Len(tasks) /\ filteredItems # tasks
    /\ Len(projects) >= 2 /\ Len(filteredProjects) = Len(projects)
    /\ filteredProjects # projects

\* C9: for an empty input both hooks return an empty list and a count of 0.
C9_EmptyInput ==
    /\ tasks = <<>> => (filteredItems = <<>> /\ resultCount = 0)
    /\ projects = <<>> => (filteredProjects = <<>> /\ projectCount = 0)

\* Both hooks evaluated on empty input with a filter and ascending order
C9_Witness ==
    /\ tasks = <<>> /\ StatusActive(searchFilters) /\ searchFilters.sortOrder = "asc"
    /\ projects = <<>> /\ SearchActive(projectFilters)
    /\ projectFilters.sortOrder = "asc"

TextMatch(t, term) ==
    LET lower == ToLowerCase(term) IN
    \/ Includes(ToLowerCase(t.title), lower)
    \/ Includes(ToLowerCase(t.description), lower)
    \/ \E g \in 1..Len(t.tags) : Includes(ToLowerCase(t.tags[g]), lower)

\* C10: with a non-empty search term, a task is in the output exactly when
\* the lower-cased term is a substring of its lower-cased title, description
\* or one of its lower-cased tags (and it passes the tag filter, if one is set).
C10_TextSearch ==
    SearchActive(searchFilters) =>
        \A i \in 1..Len(tasks) :
            InArray(filteredItems, tasks[i])
                <=> /\ TextMatch(tasks[i], searchFilters.searchTerm)
                    /\ TagActive(searchFilters) => MatchesTag(tasks[i], searchFilters)

\* The term 'AB' keeps the task titled 'Ab' and drops the other task
C10_Witness ==
    /\ searchFilters.searchTerm = <<"A", "B">> /\ ~TagActive(searchFilters)
    /\ Len(tasks) = 2 /\ Len(filteredItems) = 1
    /\ filteredItems[1].title = <<"A", "b">>

\* C11: with a tag filter other than 'all', the filter value is lower-cased
\* before it is compared with the tags: a task that passes the text search
\* and whose tags contain the lower-cased filter value is in the output.
C11_TagFilterLowercased ==
    TagActive(searchFilters) =>
        \A i \in 1..Len(tasks) :
            (/\ ArrayIncludes(tasks[i].tags, ToLowerCase(searchFilters.tagFilter))
             /\ SearchActive(searchFilters)
                    => TextMatch(tasks[i], searchFilters.searchTerm))
                => InArray(filteredItems, tasks[i])

\* The calendar days of the Sunday-to-Saturday week and of the month that
\* contain the instant n
SameWeek(t, n) == WeekLastDay(DayOf(t)) = WeekLastDay(DayOf(n))
SameMonth(t, n) == MonthLastDay(DayOf(t)) = MonthLastDay(DayOf(n))

\* C12: with dueDateFilter 'this-week', a task is in the output exactly when
\* it has a due date on one of the seven days, Sunday to Saturday, of the
\* week that contains the current day, at any time of the day.
C12_ThisWeek ==
    searchFilters.dueDateFilter = "this-week" =>
        \A i \in 1..Len(tasks) :
            InArray(filteredItems, tasks[i])
                <=> /\ tasks[i].due_date # <<>>
                    /\ SameWeek(tasks[i].due_date[1], evalAt)

\* C13: with dueDateFilter 'this-month', a task is in the output exactly when
\* it has a due date on a day of the current calendar month, the first and
\* the last included, at any time of the day.
C13_ThisMonth ==
    searchFilters.dueDateFilter = "this-month" =>
        \A i \in 1..Len(tasks) :
            InArray(filteredItems, tasks[i])
                <=> /\ tasks[i].due_date # <<>>
                    /\ SameMonth(tasks[i].due_date[1], evalAt)

\* C14: with dueDateFilter 'overdue', a task is in the output exactly when
\* it has a due date on a day before the current day; a task due at any
\* time today, or without a due date, is not in the output.
C14_Overdue ==
    searchFilters.dueDateFilter = "overdue" =>
        \A i \in 1..Len(tasks) :
            InArray(filteredItems, tasks[i])
                <=> /\ tasks[i].due_date # <<>>
                    /\ DayOf(tasks[i].due_date[1]) < DayOf(evalAt)

\* One task due at the last instant of yesterday is kept, one due at the
\* first instant of today is dropped
C14_Witness ==
    /\ searchFilters.dueDateFilter = "overdue"
    /\ evalAt > Midnight(DayOf(evalAt))
    /\ Len(tasks) = 2
    /\ tasks[1].due_date = <<Midnight(DayOf(evalAt)) - 1>>
    /\ tasks[2].due_date = <<Midnight(DayOf(evalAt))>>
    /\ filteredItems = <<tasks[1]>>

\* C15: a task without a due date is not in the output for any dueDateFilter
\* other than 'all', and with 'all' every task without a due date is in the
\* output.
C15_Undated ==
    \A i \in 1..Len(tasks) :
        tasks[i].due_date = <<>> =>
            (InArray(filteredItems, tasks[i]) <=> searchFilters.dueDateFilter = "all")

\* The month bucket keeps the dated task and drops the undated one
C15_Witness ==
    /\ searchFilters.dueDateFilter = "this-month"
    /\ Len(tasks) = 2
    /\ tasks[1].due_date = <<>> /\ tasks[2].due_date # <<>>
    /\ filteredItems = <<tasks[2]>>

\* The output for the tasks and filter state of the hook with the sort
\* direction reversed
OtherOrder(o) == IF o = "asc" THEN "desc" ELSE "asc"
FlippedItems ==
    ComputeFilteredTasks(tasks,
        [searchFilters EXCEPT !.sortOrder = OtherOrder(searchFilters.sortOrder)],
        evalAt).filtered

\* C16: for every sort key, two output tasks whose comparison is not zero
\* are in the opposite relative order when the sort direction is reversed.
C16_DescendingReverses ==
    \A p \in OutputPairs :
        Comparison(filteredItems[p[1]], filteredItems[p[2]], searchFilters) # 0
            => /\ InArray(FlippedItems, filteredItems[p[1]])
               /\ InArray(FlippedItems, filteredItems[p[2]])
               /\ Before(FlippedItems, filteredItems[p[2]], filteredItems[p[1]])

\* Descending order on three tasks, two of which tie and one of which does not
C16_Witness ==
    /\ searchFilters.sortOrder = "desc"
    /\ searchFilters.sortBy = "updated"
    /\ Len(filteredItems) = 3
    /\ Comparison(filteredItems[1], filteredItems[2], searchFilters) # 0
    /\ Comparison(filteredItems[2], filteredItems[3], searchFilters) = 0
    /\ FlippedItems = <<filteredItems[2], filteredItems[3], filteredItems[1]>>

\* The sort key of a task does not come after that of another
KeyLeq(a, b, sortBy) ==
    CASE sortBy = "created" -> a.created_at <= b.created_at
      [] sortBy = "updated" -> a.updated_at <= b.updated_at
      [] sortBy = "title" -> LocaleCompare(a.title, b.title) <= 0
      [] sortBy = "priority" -> PriorityRank[a.priority] <= PriorityRank[b.priority]

\* C19: with sortBy 'created', 'updated', 'title' or 'priority' the output
\* is sorted on that key: non-decreasing along the output with sortOrder
\* 'asc' and non-increasing with 'desc'.
C19_SortedOnKey ==
    searchFilters.sortBy \in {"created", "updated", "title", "priority"} =>
        \A p \in OutputPairs :
            IF searchFilters.sortOrder = "asc"
            THEN KeyLeq(filteredItems[p[1]], filteredItems[p[2]], searchFilters.sortBy)
            ELSE KeyLeq(filteredItems[p[2]], filteredItems[p[1]], searchFilters.sortBy)

\* Titles given as 'b', 'B', 'b' come out ascending as 'b', 'b', 'B'
C19_Witness ==
    /\ searchFilters.sortBy = "title" /\ searchFilters.sortOrder = "asc"
    /\ Len(tasks) = 3
    /\ tasks[2].title = <<"B">>
    /\ filteredItems = <<tasks[1], tasks[3], tasks[2]>>

\* The lower-cased term is a substring of the lower-cased name or description
ProjectTextMatch(p, term) ==
    \/ Includes(ToLowerCase(p.name), ToLowerCase(term))
    \/ \E d \in 1..Len(p.description) :
           Includes(ToLowerCase(p.description[d]), ToLowerCase(term))

ProjectPairs ==
    {p \in (1..Len(filteredProjects)) \X (1..Len(filteredProjects)) : p[1] < p[2]}

\* C20: in useProjectSearch a project is in the output exactly when the
\* search term is empty or matches its name or description without regard
\* to case, whatever the status, priority, tag and due-date filters are; and
\* with sortBy 'priority' or 'due-date' the output is ordered by creation
\* timestamp in the direction of sortOrder.
C20_ProjectFiltersIgnored ==
    /\ \A i \in 1..Len(projects) :
           InArray(filteredProjects, projects[i])
               <=> \/ projectFilters.searchTerm = Str_empty
                   \/ ProjectTextMatch(projects[i], projectFilters.searchTerm)
    /\ projectFilters.sortBy \in {"priority", "due-date"} =>
           \A p \in ProjectPairs :
               IF projectFilters.sortOrder = "asc"
               THEN filteredProjects[p[1]].created_at <= filteredProjects[p[2]].created_at
               ELSE filteredProjects[p[1]].created_at >= filteredProjects[p[2]].created_at

\* All four filters are set and no project is dropped; sortBy 'due-date'
\* ascending puts the project created first in front
C20_Witness ==
    /\ projectFilters.statusFilter # "all" /\ projectFilters.priorityFilter # "all"
    /\ projectFilters.tagFilter # Str_all /\ projectFilters.dueDateFilter # "all"
    /\ projectFilters.sortBy = "due-date" /\ projectFilters.sortOrder = "asc"
    /\ Len(projects) = 2
    /\ projects[1].created_at > projects[2].created_at
    /\ projects[1].updated_at < projects[2].updated_at
    /\ filteredProjects = <<projects[2], projects[1]>>

\* C17: every tag handed to onAddTag, by the add button, the Enter key or a
\* click on a suggestion, is non-empty, lowercase and not in the tags prop
\* the component had when it handed the tag over.
C17_HandedTagsNormalised ==
    \A i \in 1..Len(onAddTagCalls) :
        /\ onAddTagCalls[i].tag # Str_empty
        /\ onAddTagCalls[i].tag = ToLowerCase(onAddTagCalls[i].tag)
        /\ ~ArrayIncludes(onAddTagCalls[i].tags, onAddTagCalls[i].tag)

\* C18: every call of onAddTime, from stopTracking or from addManualTime,
\* has a whole number of minutes greater than 0.
C18_PositiveMinutes ==
    \A i \in 1..Len(onAddTimeCalls) :
        /\ onAddTimeCalls[i].minutes \in Int
        /\ onAddTimeCalls[i].minutes > 0

\* A session was stopped and handed over, a manual entry of '1.2' was handed
\* over as 1, and a session that did not reach a minute is being tracked
C18_Witness ==
    /\ Len(onAddTimeCalls) = 2
    /\ onAddTimeCalls[1].via = "stopTracking"
    /\ onAddTimeCalls[2] = [minutes |-> 1, via |-> "addManualTime"]
    /\ isTracking /\ currentSession < 0

\* C21: a clearFilters step ends with the default filter state, with
\* hasActiveFilters false and resultCount the number of input tasks; and
\* whenever hasActiveFilters is false every input task is in filteredItems.
C21_ClearFilters ==
    /\ [][ClearFilters =>
            /\ searchFilters' = DefaultFilters
            /\ ~HasActiveFilters(searchFilters')
            /\ resultCount' = Len(tasks)]_vars
    /\ [](~HasActiveFilters(searchFilters) =>
            /\ resultCount = Len(tasks)
            /\ \A i \in 1..Len(tasks) : InArray(filteredItems, tasks[i]))

\* The default filter state over two tasks, one of which every filter of
\* the domain would drop
C21_Witness ==
    /\ searchFilters = DefaultFilters
    /\ Len(tasks) = 2 /\ resultCount = 2
    /\ tasks[1].status # tasks[2].status

\* The tasks the bucket b keeps for the hook's tasks at the current instant
KeptBy(b) ==
    ComputeFilteredTasks(tasks, [DefaultFilters EXCEPT !.dueDateFilter = b], now).filtered

\* C22: on every day and for every task collection, a task kept by
\* dueDateFilter 'today' is kept by 'this-week' and by 'this-month', and is
\* not kept by 'overdue'.
C22_BucketsNested ==
    \A i \in 1..Len(tasks) :
        InArray(KeptBy("today"), tasks[i]) =>
            /\ InArray(KeptBy("this-week"), tasks[i])
            /\ InArray(KeptBy("this-month"), tasks[i])
            /\ ~InArray(KeptBy("overdue"), tasks[i])

\* C23: in the mock useTasks hook every task's status is todo, in-progress
\* or done; a task that addTask appends has status todo; and a task to which
\* a multiple of three toggles were applied since its status was set has
\* that status again.
C23_StatusCycle ==
    /\ [](\A k \in 1..Len(mock.tasks) :
            /\ mock.tasks[k].status \in Statuses
            /\ mock.tasks[k].toggles = 0
                   => mock.tasks[k].status = mock.tasks[k].origin)
    /\ [][Len(mock.tasks') = Len(mock.tasks) + 1
            => mock.tasks'[Len(mock.tasks')].status = "todo"]_vars

\* The added task was toggled twice: it is done, one toggle from todo again
C23_Witness ==
    /\ Len(mock.tasks) = Len(MockTasks) + 1
    /\ mock.tasks[Len(mock.tasks)] =
           [id |-> InitialNextId, status |-> "done", origin |-> "todo", toggles |-> 2]

\* C24: the ids of the tasks of the mock useTasks hook are pairwise
\* different, also when addTask is called again before the timer of an
\* earlier addTask call has fired.
C24_UniqueIds ==
    \A j, k \in 1..Len(mock.tasks) :
        j # k => mock.tasks[j].id # mock.tasks[k].id

\* C25: once the current project has changed from one project to another
\* and no backend call of useTasks is outstanding, the hook holds the tasks
\* and the statistics the backend returned for the current project.
C25_TasksOfCurrentProject ==
    (hook.switches >= 2 /\ hook.calls = <<>>) =>
        /\ hook.tasks = TasksOf(hook.projectId)
        /\ hook.stats = StatsOf(hook.projectId)

\* The calls in flight whose command add_task, update_task, delete_task or
\* toggle_task_status has not been answered yet
AwaitingCommand(calls) ==
    Cardinality({k \in 1..Len(calls) : ReloadsStats(calls[k].fn) /\ calls[k].stage = "command"})

\* A step in which the command of addTask, updateTask, deleteTask or
\* toggleTaskStatus failed: the call ends without going on to loadStats
CommandFailed ==
    /\ Len(hook.calls') = Len(hook.calls) - 1
    /\ AwaitingCommand(hook.calls') < AwaitingCommand(hook.calls)

\* C26: when the backend command of addTask, updateTask, deleteTask or
\* toggleTaskStatus fails, the task list is left as it was, error is set, the
\* failure is thrown again to the caller and loading is set to false.
C26_CommandFailure ==
    [][CommandFailed =>
        /\ hook.tasks' = hook.tasks
        /\ hook.error' # <<>>
        /\ hook.rejected'
        /\ ~hook.loading']_vars

C26_Witness ==
    /\ hook.rejected
    /\ hook.error # <<>>
    /\ ~hook.loading
    /\ hook.tasks = AllTasks
    /\ hook.calls = <<>>

\* The calls in flight that set loading when they started
SetsLoading(calls) == {k \in 1..Len(calls) : calls[k].fn # "loadStats"}

\* C27: loading is true while a backend operation that useTasks started with
\* setLoading(true) is still in flight, also when several overlap.
C27_LoadingWhileInFlight ==
    SetsLoading(hook.calls) # {} => hook.loading

\* C28: handleImport invokes import_data_from_content only with the content
\* that validate_import_data has just found valid and after the user
\* confirmed; onDataChanged is called only with a result that reports
\* success; and isImporting is false whenever handleImport has ended.
C28_ImportGuarded ==
    /\ [][(importer.pc' = "import" /\ importer.pc # "import") =>
            /\ importer.importValidation' # <<>>
            /\ importer.importValidation'[1].valid
            /\ importer.imported'[1].jsonContent = importer.validated'[1]
            /\ importer.confirmed' = <<TRUE>>]_vars
    /\ [][importer.onDataChangedCalls' # importer.onDataChangedCalls =>
            /\ importer.importResult' # <<>>
            /\ importer.importResult'[1].success]_vars
    /\ [](importer.pc = "idle" => ~importer.isImporting)

C28_Witness ==
    /\ importer.pc = "idle"
    /\ importer.imports = 2
    /\ importer.onDataChangedCalls = 1
    /\ importer.importValidation # <<>>
    /\ ~importer.importValidation[1].valid
    /\ ~importer.isImporting

\* C29: in the step in which deleteProject(p) succeeds, p is no longer in
\* projects and currentProject is null or a project that is in projects; in
\* the step in which it fails, projects and currentProject are unchanged and
\* error is set.
C29_DeleteProject ==
    [][pm.deleted' # <<>> =>
        IF pm.deleted'[1].ok
        THEN /\ ~InArray(pm.projects', pm.deleted'[1].projectId)
             /\ \/ pm.currentProject' = <<>>
                \/ InArray(pm.projects', pm.currentProject'[1])
        ELSE /\ pm.projects' = pm.projects
             /\ pm.currentProject' = pm.currentProject
             /\ pm.error' # <<>>]_vars

\* The notification with this id is in the list
Shown(id) == \E k \in 1..Len(notifier.notifications) : notifier.notifications[k].id = id

\* The notification with this id is in the list and was added with no
\* duration or with one that is not negative
ShownTimed(id) ==
    \E k \in 1..Len(notifier.notifications) :
        /\ notifier.notifications[k].id = id
        /\ \/ notifier.notifications[k].requested = <<>>
           \/ notifier.notifications[k].requested[1] >= 0

\* The list holds at most maxNotifications entries, the most recently added
\* first
NewestFirst ==
    /\ Len(notifier.notifications) <= maxNotifications
    /\ \A j, k \in 1..Len(notifier.notifications) :
           j < k => notifier.notifications[j].id > notifier.notifications[k].id

\* Adding puts the new notification first and drops at most the last, the
\* oldest, of the notifications shown before
OldestDropped ==
    notifier.nextId' # notifier.nextId =>
        /\ notifier.notifications'[1].id = notifier.nextId
        /\ \A k \in 1..Len(notifier.notifications) :
               k < maxNotifications => Shown(notifier.notifications[k].id)'

\* C30 as stated: the list holds at most maxNotifications entries, newest
\* first, the oldest dropped on overflow, and every notification added is
\* eventually out of the list.
C30_EveryNotificationRemoved ==
    /\ []NewestFirst
    /\ [][OldestDropped]_vars
    /\ \A id \in 1..(MaxNotified + 1) : Shown(id) ~> ~Shown(id)

\* C30 amended: the same, for every notification added with no duration or
\* with a duration that is not negative, a duration of 0 included.
C30_TimedNotificationRemoved ==
    /\ []NewestFirst
    /\ [][OldestDropped]_vars
    /\ \A id \in 1..(MaxNotified + 1) : ShownTimed(id) ~> ~Shown(id)

C30_Witness ==
    /\ Len(notifier.notifications) = maxNotifications
    /\ notifier.nextId > maxNotifications + 1
    /\ notifier.notifications[1].requested = <<0>>
    /\ notifier.notifications[1].duration = DefaultDuration
    /\ \E k \in 1..Len(notifier.timers) : notifier.timers[k].id = notifier.notifications[1].id

====
